---- MODULE Spec2Model ----
(***************************************************************************)
(* eh_downloader: the run of main (src/main.rs) over the galleries of the  *)
(* input list.  Each gallery is crawled (Gallery::fetch_info, then         *)
(* Gallery::fetch_images) by the main task, then one task per image is     *)
(* spawned on a JoinSet; every task takes a permit of the global semaphore *)
(* SEM and runs the retried function download (src/gallery.rs).            *)
(*                                                                         *)
(* A step of the model is what one task does between two await points.    *)
(* What the network answers is chosen when the answer arrives.             *)
(* File-system calls are taken to succeed (the expect()s on them never     *)
(* fire); network calls may fail in every way the code distinguishes.      *)
(***************************************************************************)
EXTENDS Integers, Sequences, FiniteSets, TLC

\* ------------------------------------------------------------------ bounds

\* Number of lines (galleries) of the input list.
NumGalleries == 2

\* Largest number of listing pages the site serves for one gallery.
MaxPages == 2

\* Largest number of "#gdt a" elements the site serves for one gallery.
MaxItems == 2

\* Largest value of Config.concurrency tried.
MaxConcurrency == 2

\* ------------------------------------------------------- program constants

\* #[retry(stop = attempts(3))]: download is called 3 times at most.
MaxAttempts == 3

\* ----------------------------------------------------------------- values

\* Asset URLs, as the sequence of their '.'-separated pieces.
PreviewSrc == <<"preview", "jpg">>
OriginHref == <<"fullimg", "jpg">>
Location == <<"original", "jpg">>
EmptyUrl == << >>

\* image_url.rsplit('.').next(): the piece after the last '.', the whole
\* string when it holds none (rsplit always yields one piece, so the
\* unwrap_or("jpg") is never taken).
Ext(u) == u[Len(u)]

Exts == {Ext(PreviewSrc), Ext(OriginHref), Ext(Location)}

\* Titles the "#gn" element may hold.
Titles == {"T"}

\* self.title.replace([...], ""): the titles served hold none of the
\* characters removed.
Sanitize(t) == t

\* file_path: {output}/{title}/{index + 1}.{ext}; i is index + 1.
FilePath(t, i, u) == <<Sanitize(t), i, Ext(u)>>

Paths == Titles \X (1..MaxItems) \X Exts

\* The URL of listing page p > 1: the href of the next-page link of page p - 1.
PageUrl(p) == <<"page", p>>

\* The lines of the input list, each a URL that Url::parse accepts.
GalleryUrl(n) == <<"gallery", n>>

\* What the next-page link of listing page p may be: no such element, an
\* element without href, an element whose href is page p + 1.  The site has
\* at most MaxPages pages.
NoLink == <<"none">>
NoHref == <<"nohref">>
NextLinks(p) == {NoLink, NoHref} \cup (IF p < MaxPages THEN {PageUrl(p + 1)} ELSE {})

\* An item link is "ok" (href parses as a URL), "bad" (href does not parse)
\* or "nohref".  The site serves the first two.
LinkKinds == {"ok", "bad"}

\* The URL of the ok link at position i (from 1) of page p.
ItemUrl(p, i) == <<p, i>>

LinkSeqs(n) == UNION {[1..k -> LinkKinds] : k \in 0..n}

\* The fields of Config, in the order of their declaration.
Fields == <<"cookie", "concurrency", "original", "proxy", "input", "output">>

FieldSet == {Fields[k] : k \in DOMAIN Fields}

\* proxy is an Option<String>: the only field that may be left out.
OptionFields == {"proxy"}

\* The value of a Config not read yet, and of serde's errors.
Unread == << >>
Ok == <<"Ok">>
MissingField(f) == <<"missing field", f>>

\* Config::read_from_file on a file that holds a JSON object with the fields
\* o, each of its field's type: the Deserialize derived for Config takes the
\* fields in the order of their declaration and fails at the first one that
\* is absent and not an Option; absent Options are None.
RECURSIVE FromReader(_, _)
FromReader(o, k) ==
    IF k > Len(Fields) THEN Ok
    ELSE IF Fields[k] \notin o /\ Fields[k] \notin OptionFields
         THEN MissingField(Fields[k])
         ELSE FromReader(o, k + 1)

read_from_file(o) == FromReader(o, 1)

VARIABLES
    object,       \* the config file: the fields its JSON object holds
    config,       \* what Config::read_from_file returned
    concurrency,  \* Config.concurrency (the value the file gives it)
    original,     \* Config.original (the value the file gives it)
    permits,      \* SEM: available permits (0 until init sets SEM)
    mainpc,       \* where main is
    g,            \* the gallery main is processing (1-based)
    title,        \* Gallery.title
    url,          \* fetch_images: the local url
    images,       \* Gallery.images
    tasks,        \* the JoinSet of Gallery::download: one record per task
    files,        \* the output directory: path -> "absent" | "partial" | "complete"
    pos,          \* position of the gallery's progress bar
    mainPos,      \* position of main's progress bar
    exit,         \* process exit status: "running", "0", "1", "101"
    requested,    \* log: the listing URLs fetch_images has requested
    listing,      \* log: the listing pages fetch_images has received
    crawl         \* log: per gallery, how its crawl ended

vars == <<object, config, concurrency, original, permits, mainpc, g, title, url, images,
          tasks, files, pos, mainPos, exit, requested, listing, crawl>>

cfgVars == <<object, config, concurrency, original>>

Galleries == 1..NumGalleries

\* The values of Config.concurrency (an i64) tried: a negative one, zero and
\* the positive ones up to MaxConcurrency.
Concurrencies == -1..MaxConcurrency

Init ==
    /\ object \in SUBSET FieldSet
    /\ config = Unread
    /\ concurrency \in (IF "concurrency" \in object THEN Concurrencies ELSE {0})
    /\ original \in (IF "original" \in object THEN BOOLEAN ELSE {FALSE})
    /\ permits = 0
    /\ mainpc = "config"
    /\ g = 1
    /\ title = ""
    /\ url = << >>
    /\ images = << >>
    /\ tasks = << >>
    /\ files = [p \in Paths |-> "absent"]
    /\ pos = 0
    /\ mainPos = 0
    /\ exit = "running"
    /\ requested = << >>
    /\ listing = << >>
    /\ crawl = [n \in Galleries |-> "pending"]

\* ------------------------------------------------------------------ main

\* Vec::insert(index, element), index from 0: panics when index > len.
VecInsert(v, index, e) ==
    IF index > Len(v)
    THEN [panic |-> TRUE, v |-> v]
    ELSE [panic |-> FALSE,
          v |-> SubSeq(v, 1, index) \o <<e>> \o SubSeq(v, index + 1, Len(v))]

\* The loop over document.select("#gdt a").enumerate() of fetch_images, from
\* element k (from 1) on: an element whose href is missing or does not parse
\* is passed over, every other is inserted at its index in the page.
RECURSIVE InsertLinks(_, _, _, _)
InsertLinks(v, links, p, k) ==
    IF k > Len(links) THEN [panic |-> FALSE, v |-> v]
    ELSE IF links[k] # "ok" THEN InsertLinks(v, links, p, k + 1)
    ELSE LET r == VecInsert(v, k - 1, ItemUrl(p, k))
         IN  IF r.panic THEN r ELSE InsertLinks(r.v, links, p, k + 1)

\* What fetch_images does with the url once a page is parsed: the href of the
\* next-page link when there is one, otherwise the loop ends.
HasNext(page) == page.next \notin {NoLink, NoHref}

NextUrl(u, page) == IF HasNext(page) THEN page.next ELSE u

\* Number of "#gdt a" elements served so far for this gallery.
RECURSIVE Served(_)
Served(l) == IF l = << >> THEN 0 ELSE Len(l[1].links) + Served(Tail(l))

\* The answer with a non-success status: an error page, without item links
\* or next-page link.
ErrorPage == [links |-> << >>, next |-> NoLink, status |-> "other"]

\* What the site may answer to the request of listing page p: the page, with
\* a success status, or the error page.  fetch_images reads the text of
\* either without a look at the status.
Pages(p) ==
    [links : LinkSeqs(MaxItems - Served(listing)), next : NextLinks(p),
     status : {"success"}] \cup {ErrorPage}

\* main: a panic unwinds main, the process exits with status 101.
MainPanics ==
    /\ mainpc' = "panicked"
    /\ exit' = "101"

\* main: an error of read_from_file, init or get_links is printed and the
\* process exits with status 1.
MainExits ==
    /\ mainpc' = "exited"
    /\ exit' = "1"

\* main: g.download(config) returned, the gallery and its JoinSet are dropped;
\* pb.inc(1), then the next gallery, or after the last one main returns
\* Ok(()): exit status 0.
GalleryReturns ==
    /\ mainPos' = mainPos + 1
    /\ title' = ""
    /\ url' = << >>
    /\ images' = << >>
    /\ tasks' = << >>
    /\ requested' = << >>
    /\ listing' = << >>
    /\ IF g = NumGalleries
       THEN mainpc' = "done" /\ exit' = "0" /\ g' = g
       ELSE mainpc' = "fetch_info" /\ exit' = exit /\ g' = g + 1

\* main: the config file is read; without a Config the run does not start.
ReadConfig ==
    /\ mainpc = "config"
    /\ config' = read_from_file(object)
    /\ IF config' = Ok
       THEN mainpc' = "init" /\ exit' = exit
       ELSE MainExits
    /\ UNCHANGED <<object, concurrency, original, permits, g, title, url, images,
                   tasks, files, pos, mainPos, requested, listing, crawl>>

\* init(): with a proxy, Proxy::all may refuse its URL (Err: main exits).
\* Then SEM is set to a semaphore of config.concurrency as usize permits:
\* Semaphore::new panics above usize::MAX >> 3 permits, and a negative i64
\* cast with `as usize` is above it.
InitRun ==
    /\ mainpc = "init"
    /\ \/ /\ "proxy" \in object
          /\ MainExits
          /\ permits' = permits
       \/ IF concurrency < 0
          THEN MainPanics /\ permits' = permits
          ELSE mainpc' = "fetch_info" /\ exit' = exit /\ permits' = concurrency
    /\ UNCHANGED <<cfgVars, g, title, url, images, tasks, files, pos, mainPos,
                   requested, listing, crawl>>

\* Gallery::download, first half: fetch_info.  The request fails, answers a
\* non-success status, has no "#gn" element, or yields the title; on the
\* title, fetch_images starts and requests self.url.
FetchInfo ==
    /\ mainpc = "fetch_info"
    /\ \E r \in {"transport", "status", "notitle"} \cup Titles :
        IF r \in Titles
        THEN /\ title' = r
             /\ url' = GalleryUrl(g)
             /\ requested' = <<GalleryUrl(g)>>
             /\ mainpc' = "fetch_images"
             /\ UNCHANGED <<g, mainPos, exit, crawl, images, tasks, listing>>
        ELSE /\ crawl' = [crawl EXCEPT ![g] = "failed"]
             /\ GalleryReturns
    /\ UNCHANGED <<cfgVars, permits, files, pos>>

\* fetch_images: the answer to the request of one listing page arrives.
FetchImages ==
    /\ mainpc = "fetch_images"
    /\ \/ /\ crawl' = [crawl EXCEPT ![g] = "failed"]
          /\ GalleryReturns
       \/ \E r \in Pages(Len(listing) + 1) :
             LET ins == InsertLinks(images, r.links, Len(listing) + 1, 1)
             IN  /\ listing' = Append(listing, r)
                 /\ images' = ins.v
                 /\ IF ins.panic
                    THEN /\ MainPanics
                         /\ crawl' = [crawl EXCEPT ![g] = "panicked"]
                         /\ UNCHANGED <<url, requested>>
                    ELSE /\ url' = NextUrl(url, r)
                         /\ requested' = IF HasNext(r) THEN Append(requested, url')
                                         ELSE requested
                         /\ mainpc' = IF HasNext(r) THEN "fetch_images" ELSE "spawn"
                         /\ crawl' = IF HasNext(r) THEN crawl
                                     ELSE [crawl EXCEPT ![g] = "ok"]
                         /\ exit' = exit
                 /\ UNCHANGED <<g, mainPos, title, tasks>>
    /\ UNCHANGED <<cfgVars, permits, files, pos>>


\* The item page before it is read, and after the call that read it is over.
NoText == [preview |-> FALSE, origin |-> FALSE]

\* A task as tasks.spawn creates it: it waits for a permit of SEM.  attempt
\* counts the calls of download the retry wrapper has made; text, image_url
\* and redirect are locals of the running call (text: what the item page
\* holds, redirect: how the probe of the original link was answered); log
\* holds the outcome of every asset request the task has sent.
NewTask ==
    [pc |-> "acquire", attempt |-> 0, text |-> NoText, image_url |-> EmptyUrl,
     redirect |-> "none", log |-> << >>, outcome |-> "none"]

\* Gallery::download, after fetch_images: one task per image is spawned (the
\* images move into the tasks), then main awaits tasks.join_all().
Spawn ==
    /\ mainpc = "spawn"
    /\ tasks' = [i \in 1..Len(images) |-> NewTask]
    /\ images' = << >>
    /\ requested' = << >>
    /\ listing' = << >>
    /\ pos' = 0
    /\ mainpc' = "join"
    /\ UNCHANGED <<cfgVars, permits, g, title, url, files, mainPos, exit, crawl>>

\* ------------------------------------------------------------ item tasks

Items == DOMAIN tasks

\* A permit given back as soon as the asset request is answered.
HoldingUntilBody(t) == t.pc \in {"page", "probe", "asset"}

\* The task holds a permit of SEM: it is inside download, at a network await.
Holding(t) == t.pc \in {"page", "probe", "asset", "body"}

\* The call of download is over: its locals are dropped.
Dropped(t) ==
    [t EXCEPT !.text = NoText, !.image_url = EmptyUrl, !.redirect = "none"]

\* The task is over: the retry wrapper's counter goes with it.
Ended(t, pc) == [Dropped(t) EXCEPT !.pc = pc, !.attempt = 0]

\* download returned for good: the task records the outcome and ends.
Finished(t, o) == [Ended(t, "done") EXCEPT !.outcome = o]

\* A retry wrapper that calls once more than attempts(3) allows.
RetryAllowedOnceMore(attempt) == attempt <= MaxAttempts

\* #[retry(stop = attempts(3))]: after a failed call, whether to call again.
RetryAllowed(attempt) == attempt < MaxAttempts

\* A call of download starts: the item page is requested.
Called(t) == [Dropped(t) EXCEPT !.pc = "page", !.attempt = @ + 1]

\* A call of download returned Err: the wrapper calls again or gives up.
Failing(t) == IF RetryAllowed(t.attempt) THEN Called(t) ELSE Finished(t, "Failed")

\* The status of the answer to the item page request: download logs a
\* non-success status and reads the body all the same.
Statuses == {"success", "other"}

\* The item page as download reads it: whether "div#i3 a img" has a src,
\* whether "div#i6 div:last-child a" has an href.  The site serves pages
\* without either (an error page), with the preview image alone, and with
\* the preview image and the original link.
ItemPages ==
    {page \in [preview : BOOLEAN, origin : BOOLEAN] : page.origin => page.preview}

\* has_origin: set in original mode when the page has the original link.
HasOrigin(orig, text) == orig /\ text.origin

\* image_url after the item page is parsed.
ResolvePage(orig, text) ==
    IF HasOrigin(orig, text) THEN OriginHref
    ELSE IF text.preview THEN PreviewSrc ELSE EmptyUrl

\* How the probe of the original link may be answered: the request fails, the
\* status is no redirection, a redirection without a (readable) Location
\* header, a redirection with one.
ProbeAnswers == {"transport", "noredirect", "nolocation", "location"}

\* A probe whose Location header is not taken.
ResolveProbeKeepsHref(u, answer) == u

\* image_url after the probe.
ResolveProbe(u, answer) == IF answer = "location" THEN Location ELSE u

\* A check that never finds the output file.
ExistsNever(f) == FALSE

\* file_path.exists(), f being what the directory holds at the path.
Exists(f) == f # "absent"

\* download from `if image_url.is_empty()` to the asset request: the call
\* fails without an image, returns Ok when the output file exists, otherwise
\* requests the asset.
Resolved(t, i, fs) ==
    IF t.image_url = EmptyUrl THEN Failing(t)
    ELSE IF Exists(fs[FilePath(title, i, t.image_url)]) THEN Finished(t, "Skipped")
    ELSE [t EXCEPT !.pc = "asset", !.log = Append(@, "sent")]

\* The last entry of the log is settled.
Logged(t, what) == [t EXCEPT !.log = [@ EXCEPT ![Len(@)] = what]]

\* A progress bar that also advances when download is called again.
ProgressPerCall(p, t2) == IF t2.pc \in {"done", "page"} THEN p + 1 ELSE p

\* pb.inc(1): runs once download (the retry wrapper) has returned, Ok or Err.
Progress(p, t2) == IF t2.pc = "done" THEN p + 1 ELSE p

\* Task i goes on as t2: when it ends, _limit is dropped (the permit returns
\* to SEM); pb.inc(1) runs only when download returned.
Step(i, t2) ==
    /\ tasks' = [tasks EXCEPT ![i] = t2]
    /\ permits' = IF Holding(tasks[i]) /\ ~Holding(t2) THEN permits + 1 ELSE permits
    /\ pos' = Progress(pos, t2)

mainVars == <<mainpc, g, title, url, images, mainPos, exit, requested, listing,
              crawl>>

\* A semaphore that hands out permits it does not have.
AvailableAlways(p) == TRUE

\* Semaphore::acquire completes when a permit is free.
Available(p) == p > 0

\* SEM.acquire(): the task gets a permit and calls download, which requests
\* the item page.
Acquire(i) ==
    /\ mainpc = "join"
    /\ tasks[i].pc = "acquire"
    /\ Available(permits)
    /\ tasks' = [tasks EXCEPT ![i] = Called(@)]
    /\ permits' = permits - 1
    /\ UNCHANGED <<cfgVars, mainVars, files, pos>>

\* The answer to the item page request: send() fails (expect panics, the task
\* dies), text() fails (Err), or the page is read and the asset URL resolved
\* as far as the page allows.
PageResponse(i) ==
    /\ mainpc = "join"
    /\ tasks[i].pc = "page"
    /\ \/ Step(i, Ended(tasks[i], "panicked"))
       \/ Step(i, Failing(tasks[i]))
       \/ \E status \in Statuses, page \in ItemPages :
            LET t == [tasks[i] EXCEPT !.text = page,
                                      !.image_url = ResolvePage(original, page)]
            IN  IF HasOrigin(original, page)
                THEN Step(i, [t EXCEPT !.pc = "probe"])
                ELSE Step(i, Resolved(t, i, files))
    /\ UNCHANGED <<cfgVars, mainVars, files>>

\* The answer to the probe of the original link.
ProbeResponse(i) ==
    /\ mainpc = "join"
    /\ tasks[i].pc = "probe"
    /\ \E answer \in ProbeAnswers :
        IF answer = "transport"
        THEN Step(i, Failing(tasks[i]))
        ELSE Step(i, Resolved([tasks[i] EXCEPT
                                  !.image_url = ResolveProbe(@, answer),
                                  !.redirect = answer], i, files))
    /\ UNCHANGED <<cfgVars, mainVars, files>>

\* The answer to the asset request: the request fails or the status is not a
\* success (Err), or File::create makes the (empty) output file and the body
\* is awaited.
AssetResponse(i) ==
    /\ mainpc = "join"
    /\ tasks[i].pc = "asset"
    /\ \/ /\ Step(i, Failing(Logged(tasks[i], "fail")))
          /\ files' = files
       \/ /\ Step(i, [tasks[i] EXCEPT !.pc = "body"])
          /\ files' = [files EXCEPT ![FilePath(title, i, tasks[i].image_url)] = "partial"]
    /\ UNCHANGED <<cfgVars, mainVars>>

\* response.bytes(): the body arrives and is written (Ok), or reading it fails
\* (Err; the file stays as File::create left it).
BodyResponse(i) ==
    /\ mainpc = "join"
    /\ tasks[i].pc = "body"
    /\ \/ /\ Step(i, Finished(Logged(tasks[i], "ok"), "Succeeded"))
          /\ files' = [files EXCEPT ![FilePath(title, i, tasks[i].image_url)] = "complete"]
       \/ /\ Step(i, Failing(Logged(tasks[i], "bodyfail")))
          /\ files' = files
    /\ UNCHANGED <<cfgVars, mainVars>>

\* A join that returns with the first task that ends.
JoinedFirst(ts) == \E i \in DOMAIN ts : ts[i].pc = "done"

\* join_all() is ready: every task of the JoinSet has run to its end.
Joined(ts) == \A i \in DOMAIN ts : ts[i].pc = "done"

\* tasks.join_all() returns once every task has ended; the gallery is done.
JoinAll ==
    /\ mainpc = "join"
    /\ Joined(tasks)
    /\ GalleryReturns
    /\ UNCHANGED <<cfgVars, permits, files, pos, crawl>>

\* tasks.join_all() meets a task that panicked: it panics in main, the JoinSet
\* is dropped and aborts every task still running (their permits return).
JoinPanics ==
    /\ mainpc = "join"
    /\ \E i \in Items : tasks[i].pc = "panicked"
    /\ MainPanics
    /\ tasks' = [i \in Items |->
                   IF tasks[i].pc \in {"done", "panicked"} THEN tasks[i]
                   ELSE Ended(tasks[i], "cancelled")]
    /\ permits' = permits + Cardinality({i \in Items : Holding(tasks[i])})
    /\ UNCHANGED <<cfgVars, g, title, url, images, files, pos, mainPos,
                   requested, listing, crawl>>

Next ==
    \/ ReadConfig
    \/ InitRun
    \/ FetchInfo
    \/ FetchImages
    \/ Spawn
    \/ \E i \in Items : Acquire(i)
    \/ \E i \in Items : PageResponse(i)
    \/ \E i \in Items : ProbeResponse(i)
    \/ \E i \in Items : AssetResponse(i)
    \/ \E i \in Items : BodyResponse(i)
    \/ JoinAll
    \/ JoinPanics

Spec == Init /\ [][Next]_vars

\* Downloads one at a time, without a proxy: Config.concurrency = 1,
\* Config.proxy = None.
InitSerial == Init /\ concurrency = 1 /\ "proxy" \notin object

SpecSerial == InitSerial /\ [][Next]_vars

\* ---------------------------------------------------------------- claims

\* The tasks that hold a network connection.
InFlight == {i \in Items : Holding(tasks[i])}

\* The path of the output file of item i of the gallery being downloaded
\* (every asset URL served ends in the same extension).
PathOf(i) == <<Sanitize(title), i, Ext(PreviewSrc)>>

\* What the output directory holds at that path.
FileOf(i) == files[PathOf(i)]

\* Every task of the gallery has ended with an outcome.
AllDone == mainpc = "join" /\ Items # {} /\ \A i \in Items : tasks[i].pc = "done"

\* C1: at no point do more than `concurrency` download tasks hold a network
\* connection (item page request, redirect probe, asset request or body).
C1_ConcurrencyCeiling ==
    InFlight # {} => Cardinality(InFlight) <= concurrency

\* C1 witness: with one permit, one task is on the network and another waits.
C1_Witness ==
    /\ concurrency = 1
    /\ permits = 0
    /\ \E i, j \in Items : Holding(tasks[i]) /\ tasks[j].pc = "acquire"

\* The parseable links of page p from element k on, in document order.
RECURSIVE PageItems(_, _, _)
PageItems(links, p, k) ==
    IF k > Len(links) THEN << >>
    ELSE (IF links[k] = "ok" THEN <<ItemUrl(p, k)>> ELSE << >>)
         \o PageItems(links, p, k + 1)

\* The parseable links of the pages p.. of listing l, in page order.
RECURSIVE ListingItems(_, _)
ListingItems(l, p) ==
    IF p > Len(l) THEN << >>
    ELSE PageItems(l[p].links, p, 1) \o ListingItems(l, p + 1)

\* C2: after a successful crawl of K pages the item list is the concatenation,
\* in page order, of each page's parseable item links in document order.
C2_ItemsInPageOrder ==
    mainpc = "spawn" => images = ListingItems(listing, 1)

\* C3: the crawl ends successfully at the first page without a usable
\* next-page link, no listing page is requested after it, and every request
\* before it targets the href of the previous page's next-page link.
C3_CrawlEndsAtLastPage ==
    mainpc \in {"fetch_images", "spawn", "panicked"} /\ requested # << >> =>
        /\ requested[1] = GalleryUrl(g)
        /\ \A k \in 2..Len(requested) : requested[k] = listing[k - 1].next
        /\ \A k \in 1..Len(listing) :
              ~HasNext(listing[k]) =>
                  /\ k = Len(listing)
                  /\ Len(requested) = k
                  /\ mainpc = "spawn"

\* C4: the asset is requested at most 3 times for one item, and a download
\* whose first two asset requests fail and whose third succeeds ends as
\* Succeeded, with exactly those 3 requests made.
C4_ThreeAttempts ==
    \A i \in Items :
        /\ Len(tasks[i].log) <= 3
        /\ (Len(tasks[i].log) = 3 /\ tasks[i].log[1] = "fail"
              /\ tasks[i].log[2] = "fail" /\ tasks[i].log[3] = "ok") =>
               (tasks[i].pc = "done" /\ tasks[i].outcome = "Succeeded"
                  /\ FileOf(i) = "complete")

\* C4 witness: a task that succeeded on its third asset request.
C4_Witness ==
    \E i \in Items :
        /\ tasks[i].log = <<"fail", "fail", "ok">>
        /\ tasks[i].outcome = "Succeeded"

\* C5: a download that fails all of its attempts (a failure while reading the
\* body included) ends as Failed and leaves no file at the item's path.
C5_FailedLeavesNoFile ==
    \A i \in Items :
        (tasks[i].outcome = "Failed" /\ tasks[i].log # << >>) => FileOf(i) = "absent"

\* Item i's output file exists and its task has requested no asset: the file
\* was there before the task started.
Existing(i) == FileOf(i) # "absent" /\ tasks[i].log = << >>

\* What a step does for an item whose file was there: no asset request, the
\* file as it was.
KeepsExisting(i) ==
    Existing(i) /\ i \in DOMAIN tasks' =>
        /\ tasks'[i].log = << >>
        /\ files'[PathOf(i)] = FileOf(i)

HasResolved(t) == t.pc \in {"asset", "body"}

\* C7: in original mode the asset URL is the preview src, with no probe
\* sent, when the item page has no original link, and the Location header
\* when the page has the link and the probe answers a redirect with one; in
\* preview mode no probe is sent.
C7_Resolution ==
    \A i \in Items :
        LET t == tasks[i] IN
        /\ (original /\ HasResolved(t) /\ ~t.text.origin) =>
               (t.image_url = PreviewSrc /\ t.redirect = "none")
        /\ (original /\ HasResolved(t) /\ t.text.origin /\ t.redirect = "location") =>
               t.image_url = Location
        /\ ~original =>
               /\ t.pc # "probe" /\ t.redirect = "none"
               /\ HasResolved(t) => t.image_url = PreviewSrc

\* C7 witness: in original mode a probe answered with a Location header.
C7_Witness ==
    \E i \in Items :
        /\ original /\ tasks[i].pc = "asset"
        /\ tasks[i].text.origin /\ tasks[i].redirect = "location"
        /\ tasks[i].image_url = Location

\* C8: a failure of one item ends that item's task as Failed and no more:
\* no task dies without an outcome, none is aborted.
C8_ItemFailureConfined ==
    \A i \in Items : tasks[i].pc \notin {"panicked", "cancelled"}

\* C9: when the crawl of a gallery fails, the run still processes every
\* remaining gallery of the input list.
C9_RunSurvivesGalleryFailure ==
    (exit # "running" /\ \E n \in Galleries : crawl[n] \in {"failed", "panicked"}) =>
        \A n \in Galleries : crawl[n] # "pending"

\* C10: the exit status is a failure if any gallery failed to crawl, and a
\* success only when every gallery crawled.
C10_ExitStatus ==
    mainpc = "done" => (exit = "0" <=> \A n \in Galleries : crawl[n] = "ok")

\* C11: read_from_file returns Ok for a config object that holds cookie,
\* concurrency, input and output, with original and proxy absent.
C11_ReadsWithoutOriginal ==
    (config # Unread /\ object = {"cookie", "concurrency", "input", "output"}) =>
        config = Ok

\* C12: read_from_file returns an error, and the run does not start, whenever
\* input or output is absent from the config object; for an object that holds
\* cookie, concurrency and output, the error is the missing field `input`.
C12_MissingInputOrOutput ==
    config # Unread =>
        /\ ("input" \notin object \/ "output" \notin object) =>
               (config # Ok /\ mainpc = "exited" /\ exit = "1")
        /\ object = {"cookie", "concurrency", "output"} =>
               config = MissingField("input")

\* The items of listing page p among the item list v, in the order of v.
OfPage(v, p) == SelectSeq(v, LAMBDA e : e[1] = p)

\* C13: an item link whose href does not parse is passed over: the crawl
\* neither fails nor aborts on it, wherever it stands, and the parseable
\* links of its page are all in the item list, in document order.
C13_MalformedLinkSkipped ==
    /\ \A n \in Galleries : crawl[n] # "panicked"
    /\ mainpc \in {"fetch_images", "spawn"} =>
           \A p \in 1..Len(listing) :
               OfPage(images, p) = PageItems(listing[p].links, p, 1)

\* No listing URL is requested twice by one crawl.
NoPageTwice ==
    \A j, k \in 1..Len(requested) : j # k => requested[j] # requested[k]

\* C14: when the fetch of a listing page fails (transport error or
\* non-success status) the crawl fails for the whole gallery: the page is not
\* requested again and the crawl does not go on to the downloads.
C14_PageFailureFatal ==
    /\ NoPageTwice
    /\ \A k \in 1..Len(listing) :
           listing[k].status # "success" => mainpc \notin {"fetch_images", "spawn"}

\* C15: only the asset request is retried: the item page of an item is
\* requested once at most (download, which requests it, is called once), and
\* no listing page is requested twice.
C15_RetryAssetOnly ==
    /\ \A i \in Items : tasks[i].attempt <= 1
    /\ NoPageTwice

\* C16: a file at an output path holds the complete asset; an item that
\* ended as Succeeded or Skipped has no partly written file at its path.
C16_FilesComplete ==
    /\ \A p \in Paths : files[p] \in {"absent", "complete"}
    /\ \A i \in Items :
           tasks[i].outcome \in {"Succeeded", "Skipped"} => FileOf(i) = "complete"

\* The tasks that have ended with an outcome.
Done == {i \in Items : tasks[i].pc = "done"}

\* C17: the gallery's progress bar advances once per item, when the item
\* gets its outcome (Succeeded, Skipped or Failed) and not when download is
\* called again; when the downloads of the gallery are over it stands at the
\* number of items.
C17_ProgressPerItem ==
    mainpc = "join" =>
        /\ pos = Cardinality(Done)
        /\ \A i \in Items :
               i \in Done <=> tasks[i].outcome \in {"Succeeded", "Skipped", "Failed"}
        /\ Joined(tasks) => pos = Len(tasks)

\* C17 witness: the downloads of two items are over, one after three asset
\* requests and one with no download, and the bar stands at 2.
C17_Witness ==
    /\ AllDone
    /\ pos = 2
    /\ \E i, j \in Items :
           /\ Len(tasks[i].log) = 3 /\ tasks[i].outcome = "Failed"
           /\ tasks[j].outcome = "Skipped"

\* C18: a gallery is complete (main's progress bar advances, the next
\* gallery starts) only when every task spawned for it has ended, and no task
\* is left when the next gallery is crawled.
C18_TasksJoined ==
    [][mainPos' # mainPos =>
          /\ \A i \in Items : tasks[i].pc = "done"
          /\ tasks' = << >>]_vars

\* C18 witness: the first gallery is complete, one of its items downloaded,
\* and the second is being crawled.
C18_Witness ==
    /\ mainPos = 1
    /\ mainpc = "fetch_images"
    /\ tasks = << >>
    /\ \E p \in Paths : files[p] = "complete"

\* The tasks that have taken a permit and not ended.
Started == {i \in Items : tasks[i].pc \in {"page", "probe", "asset", "body"}}

\* SEM is set and main has not panicked.
SemSet == mainpc \in {"fetch_info", "fetch_images", "spawn", "join", "done"}

\* C19: a task takes one permit, before its first request, keeps it over
\* every call of download and gives it back when it ends: the free permits
\* and the tasks that hold one add up to `concurrency`, all permits are free
\* when no gallery is being downloaded, and a step that starts a task takes
\* a permit while one that calls download again takes none (a task aborted
\* while it waits has taken none).
C19_OnePermitPerTask ==
    /\ [](SemSet => /\ permits + Cardinality(Started) = concurrency
                    /\ mainpc # "join" => permits = concurrency)
    /\ [][\A i \in Items :
            i \in DOMAIN tasks' =>
              /\ (tasks[i].pc = "acquire" /\ tasks'[i].pc \notin {"acquire", "cancelled"}) =>
                     (tasks'[i].pc = "page" /\ permits' = permits - 1)
              /\ (tasks[i].attempt >= 1 /\ tasks'[i].attempt = tasks[i].attempt + 1) =>
                     permits' = permits]_vars

\* C19 witness: with two permits, one task calls download for the third time
\* while another holds the second permit.
C19_Witness ==
    /\ concurrency = 2
    /\ permits = 0
    /\ \E i, j \in Items :
           /\ i # j
           /\ tasks[i].attempt = 3
           /\ tasks[j].pc = "body"

\* C20: once item tasks are spawned, the semaphore was sized from a
\* concurrency of 1 at least, so that a task that waits for a permit gets one.
C20_CeilingAtLeastOne ==
    mainpc \in {"spawn", "join"} => concurrency >= 1

====
